---- MODULE Spec2Model ----
(***************************************************************************)
(* Task manager: the task table, the task service on top of it, the HTTP   *)
(* handlers on top of the service, and the reminder worker that polls the  *)
(* service for tasks that are due soon.                                    *)
(*                                                                         *)
(* Time is counted in clock ticks, Res ticks to the second, so that the    *)
(* worker's conversion of its window to whole Unix seconds is visible.     *)
(* Successive readings of time.Now() are strictly increasing: every        *)
(* reading is separated from the previous one by at least one round trip   *)
(* to the database.                                                        *)
(***************************************************************************)
EXTENDS Integers, Naturals, Sequences, FiniteSets, TLC

\* ------------------------------------------------------------------ bounds
MaxTasks == 2
MaxTime == 3
Res == 2

\* --------------------------------------------------------------- constants
StatusOK == 200
StatusCreated == 201
StatusBadRequest == 400
StatusNotFound == 404
StatusInternalServerError == 500

\* The zero time.Time (January 1, year 1): before every clock reading.
ZeroTime == 0 - 1

\* w.lookahead, scaled from five minutes to one second.
Lookahead == 1 * Res

\* Error values. ErrNil is the nil error.
ErrNil == "nil"
ErrInvalidInput == "invalid input"
ErrTaskNotFound == "task not found"
\* repository.ErrTaskNotFound: the sentinel the MarkTaskComplete and
\* DeleteTask handlers compare with; no repository method returns it.
RepoErrTaskNotFound == "repository: task not found"
\* any failure of the database itself
ErrDB == "db error"
\* ctx.Err() of the cancelled worker context
ErrCanceled == "context canceled"

\* ------------------------------------------------------------------ inputs
\* Requests to create carry the title "a" or none, requests to update the
\* title "b" or none; the zero due date of an update means "not given".
CreateTitles == {"", "a"}
UpdateTitles == {"", "b"}
Descriptions == {"", "d"}
DueDates == {2, 5}
UpdateDueDates == {ZeroTime, 5}
ReqIds == 1..MaxTasks
Seconds == 0..((MaxTime + Lookahead) \div Res)

\* The nil *models.Task.
NilTask ==
  [id |-> 0, title |-> "", description |-> "", dueDate |-> ZeroTime,
   isCompleted |-> FALSE, createdAt |-> ZeroTime, updatedAt |-> ZeroTime]

NoReq == [title |-> "", description |-> "", dueDate |-> ZeroTime]

VARIABLES
  tasks,       \* the tasks table: id -> row
  nextId,      \* the BIGSERIAL sequence behind tasks.id
  deleted,     \* ids whose row a DELETE has removed
  clock,       \* the last reading of the wall clock, in ticks
  res,         \* the outcome of the last request to the service / handler
  wstate,      \* the worker: "Idle" (in select), "Scanning", "Stopped"
  tickPending, \* a tick is waiting in ticker.C
  cancelled,   \* ctx.Done() is closed
  scan,        \* the worker's current or last cycle
  reminders,   \* the reminders the last finished cycle logged
  reported,    \* ids reminded of in cycles before the last finished one
  again,       \* the last two requests were MarkTaskComplete of one stored task
  pending      \* an UpdateTask between its GetTask and its repo.Update

vars ==
  <<tasks, nextId, deleted, clock, res, wstate, tickPending, cancelled, scan,
    reminders, reported, again, pending>>

storeVars == <<tasks, nextId, deleted>>
workerVars == <<wstate, tickPending, cancelled, scan, reminders, reported>>
reqVars == <<res, again, pending>>

\* ---------------------------------------------------------------- helpers
\* time.Now(): the next reading of the clock.
Now == clock + 1

\* Time.Unix(): whole seconds since the epoch.
Unix(t) == t \div Res

\* time.Unix(sec, 0)
TimeUnix(sec) == sec * Res

\* ------------------------------------------------------------- repository
RepoCreateNoTimestamps(ts, id, task, now) ==
  (id :> [id |-> id, title |-> task.title, description |-> task.description,
          dueDate |-> task.dueDate, isCompleted |-> FALSE,
          createdAt |-> ZeroTime, updatedAt |-> ZeroTime]) @@ ts

RepoCreateCreatedAtOnly(ts, id, task, now) ==
  (id :> [id |-> id, title |-> task.title, description |-> task.description,
          dueDate |-> task.dueDate, isCompleted |-> FALSE,
          createdAt |-> now, updatedAt |-> ZeroTime]) @@ ts

\* INSERT INTO tasks (title, description, due_date, created_at, updated_at)
\* RETURNING id; is_completed takes the column default FALSE.
RepoCreate(ts, id, task, now) ==
  (id :> [id |-> id, title |-> task.title, description |-> task.description,
          dueDate |-> task.dueDate, isCompleted |-> FALSE,
          createdAt |-> now, updatedAt |-> now]) @@ ts

\* SELECT ... WHERE id = $1; sql.ErrNoRows becomes (nil, nil).
RepoGetByID(ts, id) == IF id \in DOMAIN ts THEN ts[id] ELSE NilTask

\* UPDATE tasks SET title, description, due_date, updated_at WHERE id = $5;
\* the number of rows affected is not looked at.
RepoUpdateKeepsUpdatedAt(ts, task, now) ==
  IF task.id \in DOMAIN ts
  THEN [ts EXCEPT ![task.id] =
          [@ EXCEPT !.title = task.title, !.description = task.description,
                    !.dueDate = task.dueDate]]
  ELSE ts

RepoUpdate(ts, task, now) ==
  IF task.id \in DOMAIN ts
  THEN [ts EXCEPT ![task.id] =
          [@ EXCEPT !.title = task.title, !.description = task.description,
                    !.dueDate = task.dueDate, !.updatedAt = now]]
  ELSE ts

RepoMarkCompleteToggles(ts, id, now) ==
  IF id \in DOMAIN ts
  THEN [ts EXCEPT ![id] = [@ EXCEPT !.isCompleted = ~@, !.updatedAt = now]]
  ELSE ts

\* UPDATE tasks SET is_completed = true, updated_at = $1 WHERE id = $2
RepoMarkComplete(ts, id, now) ==
  IF id \in DOMAIN ts
  THEN [ts EXCEPT ![id] = [@ EXCEPT !.isCompleted = TRUE, !.updatedAt = now]]
  ELSE ts

\* DELETE FROM tasks WHERE id = $1
RepoDelete(ts, id) == [i \in DOMAIN ts \ {id} |-> ts[i]]

\* WHERE due_date BETWEEN $1 AND $2 AND is_completed = false
DueRowsAnyStatus(ts, from, to) ==
  {ts[i] : i \in {j \in DOMAIN ts : from <= ts[j].dueDate /\ ts[j].dueDate <= to}}

DueRows(ts, from, to) ==
  {ts[i] : i \in {j \in DOMAIN ts :
                    /\ from <= ts[j].dueDate /\ ts[j].dueDate <= to
                    /\ ts[j].isCompleted = FALSE}}

\* ORDER BY due_date ASC: every order of the rows that ascends in due_date
\* (rows with equal due_date come in an order the database picks).
Ascending(rows) ==
  {s \in [1..Cardinality(rows) -> rows] :
     /\ \A i, j \in 1..Cardinality(rows) : i # j => s[i] # s[j]
     /\ \A i, j \in 1..Cardinality(rows) : i < j => s[i].dueDate <= s[j].dueDate}

RepoGetDueTasks(ts, from, to) == Ascending(DueRows(ts, from, to))

\* ---------------------------------------------------------------- service
\* What a service method hands back: its error, the task it returns, the
\* table after it, and the repository methods it called, in order.
Outcome(err, task, table, calls) ==
  [err |-> err, task |-> task, table |-> table, calls |-> calls]

ServiceCreateTaskNoValidation(ts, id, req, now, dbOk) ==
  IF ~dbOk THEN Outcome(ErrDB, NilTask, ts, <<"Create">>)
  ELSE Outcome(ErrNil, RepoCreate(ts, id, req, now)[id],
               RepoCreate(ts, id, req, now), <<"Create">>)

ServiceCreateTask(ts, id, req, now, dbOk) ==
  IF req.title = "" THEN Outcome(ErrInvalidInput, NilTask, ts, <<>>)
  ELSE IF ~dbOk THEN Outcome(ErrDB, NilTask, ts, <<"Create">>)
  ELSE Outcome(ErrNil, RepoCreate(ts, id, req, now)[id],
               RepoCreate(ts, id, req, now), <<"Create">>)

ServiceGetTaskNoNilCheck(ts, id, dbOk) ==
  IF ~dbOk THEN Outcome(ErrDB, NilTask, ts, <<"GetByID">>)
  ELSE Outcome(ErrNil, RepoGetByID(ts, id), ts, <<"GetByID">>)

ServiceGetTask(ts, id, dbOk) ==
  IF ~dbOk THEN Outcome(ErrDB, NilTask, ts, <<"GetByID">>)
  ELSE IF RepoGetByID(ts, id) = NilTask
       THEN Outcome(ErrTaskNotFound, NilTask, ts, <<"GetByID">>)
       ELSE Outcome(ErrNil, RepoGetByID(ts, id), ts, <<"GetByID">>)

\* The merge of UpdateTask: a field of the request that is empty (zero)
\* leaves the field of the existing task as it is.
MergeOverwritesAll(existing, req) ==
  [existing EXCEPT !.title = req.title, !.description = req.description,
                   !.dueDate = req.dueDate]

Merge(existing, req) ==
  [existing EXCEPT
     !.title = IF req.title # "" THEN req.title ELSE @,
     !.description = IF req.description # "" THEN req.description ELSE @,
     !.dueDate = IF req.dueDate # ZeroTime THEN req.dueDate ELSE @]

\* fail: "none", or which of the two database calls fails: "read", "write".
ServiceUpdateTask(ts, id, req, now, fail) ==
  LET got == ServiceGetTask(ts, id, fail # "read")
      merged == Merge(got.task, req)
  IN IF got.err # ErrNil THEN Outcome(got.err, NilTask, ts, <<"GetByID">>)
     ELSE IF fail = "write"
          THEN Outcome(ErrDB, NilTask, ts, <<"GetByID", "Update">>)
          ELSE Outcome(ErrNil, [merged EXCEPT !.updatedAt = now],
                       RepoUpdate(ts, merged, now), <<"GetByID", "Update">>)

ServiceMarkTaskComplete(ts, id, now, dbOk) ==
  IF ~dbOk THEN Outcome(ErrDB, NilTask, ts, <<"MarkComplete">>)
  ELSE Outcome(ErrNil, NilTask, RepoMarkComplete(ts, id, now), <<"MarkComplete">>)

ServiceDeleteTask(ts, id, dbOk) ==
  IF ~dbOk THEN Outcome(ErrDB, NilTask, ts, <<"Delete">>)
  ELSE Outcome(ErrNil, NilTask, RepoDelete(ts, id), <<"Delete">>)

\* from, to are Unix seconds; the lists the query may return.
ServiceGetDueTasks(ts, from, to) ==
  RepoGetDueTasks(ts, TimeUnix(from), TimeUnix(to))

\* ---------------------------------------------------------------- handlers
\* The status each handler writes for the error of the service.
CreateTaskStatus(err) ==
  IF err = ErrNil THEN StatusCreated
  ELSE IF err = ErrInvalidInput THEN StatusBadRequest
  ELSE StatusInternalServerError

GetTaskStatus(err) ==
  IF err = ErrNil THEN StatusOK
  ELSE IF err = ErrTaskNotFound THEN StatusNotFound
  ELSE StatusInternalServerError

UpdateTaskStatus(err) ==
  IF err = ErrNil THEN StatusOK
  ELSE IF err = ErrTaskNotFound THEN StatusNotFound
  ELSE StatusInternalServerError

MarkTaskCompleteStatus(err) ==
  IF err = ErrNil THEN StatusOK
  ELSE IF err = RepoErrTaskNotFound THEN StatusNotFound
  ELSE StatusInternalServerError

DeleteTaskStatus(err) ==
  IF err = ErrNil THEN StatusOK
  ELSE IF err = RepoErrTaskNotFound THEN StatusNotFound
  ELSE StatusInternalServerError

Response(op, id, req, out, status) ==
  [op |-> op, id |-> id, req |-> req, from |-> 0, to |-> 0, err |-> out.err,
   status |-> status, task |-> out.task, list |-> <<>>, calls |-> out.calls]

\* Whether the request read time.Now(): Create, Update and MarkComplete do.
ReadsClock(calls) ==
  \E i \in DOMAIN calls : calls[i] \in {"Create", "Update", "MarkComplete"}

CreateReqs ==
  [title : CreateTitles, description : Descriptions, dueDate : DueDates]
UpdateReqs ==
  [title : UpdateTitles, description : Descriptions, dueDate : UpdateDueDates]

\* No UpdateTask is between its two database calls.
NoPending == [id |-> 0, req |-> NoReq, existing |-> NilTask]

NoScan ==
  [now |-> 0, from |-> 0, to |-> 0, cancelledAtStart |-> FALSE, err |-> ErrNil]

Init ==
  /\ tasks = [i \in {} |-> NilTask]
  /\ nextId = 1
  /\ deleted = {}
  /\ clock = 0
  /\ res = [op |-> "none", id |-> 0, req |-> NoReq, from |-> 0, to |-> 0,
            err |-> ErrNil, status |-> 0, task |-> NilTask, list |-> <<>>,
            calls |-> <<>>]
  /\ wstate = "Idle"
  /\ tickPending = FALSE
  /\ cancelled = FALSE
  /\ scan = NoScan
  /\ reminders = <<>>
  /\ reported = {}
  /\ again = FALSE
  /\ pending = NoPending

\* POST /tasks
CreateTask(req, dbOk) ==
  LET out == ServiceCreateTask(tasks, nextId, req, Now, dbOk)
  IN /\ ReadsClock(out.calls) => (Now <= MaxTime /\ nextId <= MaxTasks)
     /\ tasks' = out.table
     /\ nextId' = IF out.err = ErrNil THEN nextId + 1 ELSE nextId
     /\ clock' = IF ReadsClock(out.calls) THEN Now ELSE clock
     /\ res' = Response("create", 0, req, out, CreateTaskStatus(out.err))
     /\ again' = FALSE
     /\ UNCHANGED <<deleted, workerVars, pending>>

\* GET /tasks/{id}
GetTask(id, dbOk) ==
  LET out == ServiceGetTask(tasks, id, dbOk)
  IN /\ res' = Response("get", id, NoReq, out, GetTaskStatus(out.err))
     /\ again' = FALSE
     /\ UNCHANGED <<storeVars, clock, workerVars, pending>>

\* PUT /tasks/{id}
UpdateTask(id, req, fail) ==
  LET out == ServiceUpdateTask(tasks, id, req, Now, fail)
  IN /\ ReadsClock(out.calls) => Now <= MaxTime
     /\ tasks' = out.table
     /\ clock' = IF ReadsClock(out.calls) THEN Now ELSE clock
     /\ res' = Response("update", id, req, out, UpdateTaskStatus(out.err))
     /\ again' = FALSE
     /\ UNCHANGED <<nextId, deleted, workerVars, pending>>

\* PATCH /tasks/{id}/complete
MarkTaskComplete(id, dbOk) ==
  LET out == ServiceMarkTaskComplete(tasks, id, Now, dbOk)
  IN /\ Now <= MaxTime
     /\ tasks' = out.table
     /\ clock' = Now
     /\ res' = Response("complete", id, NoReq, out, MarkTaskCompleteStatus(out.err))
     /\ again' = /\ out.err = ErrNil /\ id \in DOMAIN tasks
                 /\ res.op = "complete" /\ res.id = id /\ res.err = ErrNil
     /\ UNCHANGED <<nextId, deleted, workerVars, pending>>

\* DELETE /tasks/{id}
DeleteTask(id, dbOk) ==
  LET out == ServiceDeleteTask(tasks, id, dbOk)
  IN /\ tasks' = out.table
     /\ deleted' = deleted \cup (DOMAIN tasks \ DOMAIN out.table)
     /\ res' = Response("delete", id, NoReq, out, DeleteTaskStatus(out.err))
     /\ again' = FALSE
     /\ UNCHANGED <<nextId, clock, workerVars, pending>>

\* A call of the service's GetDueTasks(from, to), from and to in Unix seconds.
GetDueTasks(from, to, dbOk) ==
  /\ \E list \in (IF dbOk THEN ServiceGetDueTasks(tasks, from, to) ELSE {<<>>}) :
       res' = [op |-> "due", id |-> 0, req |-> NoReq, from |-> from, to |-> to,
               err |-> IF dbOk THEN ErrNil ELSE ErrDB, status |-> 0,
               task |-> NilTask, list |-> list, calls |-> <<"GetDueTasks">>]
  /\ again' = FALSE
  /\ UNCHANGED <<storeVars, clock, workerVars, pending>>

\* Time passes.
Tick ==
  /\ clock < MaxTime
  /\ clock' = clock + 1
  /\ UNCHANGED <<storeVars, reqVars, workerVars>>

Next ==
  \/ \E req \in CreateReqs, dbOk \in BOOLEAN : CreateTask(req, dbOk)
  \/ \E id \in ReqIds, dbOk \in BOOLEAN : GetTask(id, dbOk)
  \/ \E id \in ReqIds, req \in UpdateReqs, fail \in {"none", "read", "write"} :
       UpdateTask(id, req, fail)
  \/ \E id \in ReqIds, dbOk \in BOOLEAN : MarkTaskComplete(id, dbOk)
  \/ \E id \in ReqIds, dbOk \in BOOLEAN : DeleteTask(id, dbOk)
  \/ \E from \in Seconds, to \in Seconds, dbOk \in BOOLEAN :
       from <= to /\ GetDueTasks(from, to, dbOk)

Spec == Init /\ [][Next]_vars

\* ------------------------------------------------------------------ worker
\* The log line of checkDueTasks for each task of the list, in its order.
RemindersOf(list) ==
  [i \in DOMAIN list |->
     [id |-> list[i].id, title |-> list[i].title, dueDate |-> list[i].dueDate]]

\* What checkDueTasks logs for the answer (list, err) of GetDueTasks.
Emit(list, err) == IF err # ErrNil THEN <<>> ELSE RemindersOf(list)

\* The window checkDueTasks asks for at the reading now: Unix seconds.
WindowFrom(now) == Unix(now)

WindowToNoLookahead(now) == Unix(now)

WindowTo(now) == Unix(now + Lookahead)

ScanErrorsDetached(cancelledAtStart, cancelledNow) == {ErrNil, ErrDB}

\* The errors GetDueTasks may return to a cycle: the database may fail; a
\* context cancelled before the query starts fails it; a context cancelled
\* while the query runs may fail it.
ScanErrors(cancelledAtStart, cancelledNow) ==
  IF cancelledAtStart THEN {ErrDB, ErrCanceled}
  ELSE IF cancelledNow THEN {ErrNil, ErrDB, ErrCanceled}
  ELSE {ErrNil, ErrDB}

\* Where the loop of Start goes when checkDueTasks returns: back to select,
\* whether the cycle failed or not.
AfterScanFatal(err) == IF err # ErrNil THEN "Stopped" ELSE "Idle"

AfterScan(err) == "Idle"

\* The ticker puts a tick in ticker.C (a tick that finds one there is dropped).
TimerFire ==
  /\ wstate # "Stopped"
  /\ ~tickPending
  /\ tickPending' = TRUE
  /\ UNCHANGED <<storeVars, clock, reqVars, wstate, cancelled, scan, reminders, reported>>

\* cancel() of the worker's context.
Cancel ==
  /\ ~cancelled
  /\ cancelled' = TRUE
  /\ UNCHANGED <<storeVars, clock, reqVars, wstate, tickPending, scan, reminders, reported>>

\* select takes the tick: checkDueTasks reads the clock and sets its window.
WorkerTick ==
  /\ wstate = "Idle"
  /\ tickPending
  /\ Now <= MaxTime
  /\ tickPending' = FALSE
  /\ wstate' = "Scanning"
  /\ clock' = Now
  /\ scan' = [now |-> Now, from |-> WindowFrom(Now), to |-> WindowTo(Now),
              cancelledAtStart |-> cancelled, err |-> ErrNil]
  /\ UNCHANGED <<storeVars, reqVars, cancelled, reminders, reported>>

\* GetDueTasks answers, checkDueTasks logs the reminders and returns to select.
WorkerQuery ==
  /\ wstate = "Scanning"
  /\ \E err \in ScanErrors(scan.cancelledAtStart, cancelled) :
       \E list \in (IF err = ErrNil
                    THEN ServiceGetDueTasks(tasks, scan.from, scan.to)
                    ELSE {<<>>}) :
         /\ scan' = [scan EXCEPT !.err = err]
         /\ reminders' = Emit(list, err)
         /\ wstate' = AfterScan(err)
  /\ reported' = reported \cup {reminders[i].id : i \in DOMAIN reminders}
  /\ UNCHANGED <<storeVars, clock, reqVars, tickPending, cancelled>>

\* select takes ctx.Done(): Start returns.
WorkerStopMissing == FALSE /\ UNCHANGED vars

WorkerStop ==
  /\ wstate = "Idle"
  /\ cancelled
  /\ wstate' = "Stopped"
  /\ UNCHANGED <<storeVars, clock, reqVars, tickPending, cancelled, scan, reminders, reported>>

\* The worker beside the requests that change what it finds.
ScanReqs == {r \in CreateReqs : r.title = "a" /\ r.description = ""}

ScanNext ==
  \/ \E req \in ScanReqs : CreateTask(req, TRUE)
  \/ \E id \in ReqIds : MarkTaskComplete(id, TRUE)
  \/ \E id \in ReqIds : DeleteTask(id, TRUE)
  \/ Tick
  \/ TimerFire
  \/ Cancel
  \/ WorkerTick
  \/ WorkerQuery
  \/ WorkerStop

ScanSpec == Init /\ [][ScanNext]_vars

\* select picks among its ready cases at random, so the ready ctx.Done() is
\* not passed over for ever; a query that was started answers.
FairScanSpec == ScanSpec /\ SF_vars(WorkerStop) /\ WF_vars(WorkerQuery)

\* ------------------------------------------------------------------ claims
Created == 1..(nextId - 1)

\* C1: markComplete(id) for an id with no task fails with NotFound, answers
\* 404 and leaves the table as it was.
C1_MarkCompleteAbsentNotFound ==
  [][\A id \in ReqIds :
       (MarkTaskComplete(id, TRUE) /\ id \notin DOMAIN tasks) =>
         /\ res'.err \in {ErrTaskNotFound, RepoErrTaskNotFound}
         /\ res'.status = StatusNotFound
         /\ tasks' = tasks]_vars

\* C2: delete(id) for an id with no task fails with NotFound and answers
\* 404; for an id with a task it removes the task.
C2_DeleteAbsentNotFound ==
  [][\A id \in ReqIds :
       DeleteTask(id, TRUE) =>
         IF id \in DOMAIN tasks
         THEN res'.err = ErrNil /\ id \notin DOMAIN tasks'
         ELSE /\ res'.err \in {ErrTaskNotFound, RepoErrTaskNotFound}
              /\ res'.status = StatusNotFound]_vars

\* C3: when the database answers, get(id) succeeds exactly when id was
\* created and not deleted since, and then returns the stored row; otherwise
\* it fails with NotFound (404) and returns no task.
C3_GetExactlyLiveTasks ==
  (res.op = "get" /\ res.err # ErrDB) =>
    IF res.id \in Created \ deleted
    THEN /\ res.err = ErrNil
         /\ res.status = StatusOK
         /\ res.id \in DOMAIN tasks
         /\ res.task = tasks[res.id]
         /\ res.task.id = res.id
    ELSE /\ res.err = ErrTaskNotFound
         /\ res.status = StatusNotFound
         /\ res.task = NilTask
         /\ res.id \notin DOMAIN tasks

\* C3 witness: a get of a deleted id that failed with NotFound.
C3_Witness ==
  res.op = "get" /\ res.id \in deleted /\ res.err = ErrTaskNotFound

\* C4: create with an empty title fails with InvalidInput, returns no task,
\* calls no repository method and leaves the table as it was.
C4_EmptyTitleRejected ==
  [][(/\ res'.op = "create" /\ res'.req.title = ""
      /\ \E dbOk \in BOOLEAN : CreateTask(res'.req, dbOk)) =>
         /\ res'.err = ErrInvalidInput
         /\ res'.task = NilTask
         /\ res'.calls = <<>>
         /\ tasks' = tasks
         /\ nextId' = nextId]_vars

\* C4 witness: a rejected create with an empty title beside stored tasks.
C4_Witness ==
  /\ res.op = "create" /\ res.req.title = "" /\ res.err = ErrInvalidInput
  /\ DOMAIN tasks # {}

\* C5: an update of an existing task that gives only a title stores the new
\* title, leaves description and due date as they were, and leaves updatedAt
\* strictly greater than before.
C5_TitleOnlyUpdate ==
  [][(/\ res'.op = "update"
      /\ res'.id \in DOMAIN tasks
      /\ res'.req.title # ""
      /\ res'.req.description = "" /\ res'.req.dueDate = ZeroTime
      /\ UpdateTask(res'.id, res'.req, "none")) =>
         /\ res'.id \in DOMAIN tasks'
         /\ tasks'[res'.id].title = res'.req.title
         /\ tasks'[res'.id].description = tasks[res'.id].description
         /\ tasks'[res'.id].dueDate = tasks[res'.id].dueDate
         /\ tasks'[res'.id].updatedAt > tasks[res'.id].updatedAt]_vars

\* C5 witness: a title-only update done on a task with a description.
C5_Witness ==
  /\ res.op = "update" /\ res.err = ErrNil
  /\ res.req = [title |-> "b", description |-> "", dueDate |-> ZeroTime]
  /\ res.id \in DOMAIN tasks
  /\ tasks[res.id].title = "b" /\ tasks[res.id].description = "d"

DueIn(ts, from, to) ==
  {i \in DOMAIN ts :
     ~ts[i].isCompleted /\ from <= ts[i].dueDate /\ ts[i].dueDate <= to}

\* The reminders name exactly the tasks ids of the table ts, each once.
RemindExactly(rs, ts, ids) ==
  /\ {rs[i].id : i \in DOMAIN rs} = ids
  /\ Len(rs) = Cardinality(ids)
  /\ \A i \in DOMAIN rs :
       rs[i].id \in DOMAIN ts =>
         rs[i].title = ts[rs[i].id].title /\ rs[i].dueDate = ts[rs[i].id].dueDate

C8_WorkerTransitions ==
  /\ [][/\ wstate' # wstate =>
             \/ wstate = "Idle" /\ wstate' = "Scanning" /\ tickPending
             \/ wstate = "Scanning" /\ wstate' = "Idle"
             \/ wstate = "Idle" /\ wstate' = "Stopped" /\ cancelled
        /\ (WorkerQuery /\ scan'.err # ErrNil) =>
             reminders' = <<>> /\ wstate' = "Idle"]_vars
  /\ []((wstate = "Idle" /\ scan.err # ErrNil /\ tickPending /\ clock < MaxTime)
          => ENABLED WorkerTick)

\* C8 witness: the worker back in its wait after a failed cycle, a tick
\* pending.
C8_Witness ==
  wstate = "Idle" /\ scan.err = ErrDB /\ tickPending /\ ~cancelled

\* C9 as stated: once cancelled the worker stops in the end, stays stopped,
\* and a worker that is waiting when cancelled starts no further cycle.
C9_CancelStopsWithoutScan ==
  /\ cancelled ~> (wstate = "Stopped")
  /\ [][/\ wstate = "Stopped" => wstate' = "Stopped"
        /\ (cancelled /\ wstate = "Idle") => wstate' # "Scanning"]_vars

\* C9 amended: once cancelled the worker stops in the end and stays stopped;
\* a worker that is waiting when cancelled starts no further cycle unless a
\* tick is pending, and a cycle started after the cancellation reminds of
\* nothing.
C9_CancelStops ==
  /\ cancelled ~> (wstate = "Stopped")
  /\ [][/\ wstate = "Stopped" => wstate' = "Stopped"
        /\ (cancelled /\ wstate = "Idle" /\ ~tickPending) => wstate' # "Scanning"
        /\ (WorkerQuery /\ scan.cancelledAtStart) => reminders' = <<>>]_vars

\* C9 witness: the worker stopped after a cycle that it started when
\* already cancelled.
C9_Witness ==
  wstate = "Stopped" /\ scan.cancelledAtStart /\ scan.err = ErrCanceled

C11_MarkCompleteIdempotent ==
  [][(/\ res'.op = "complete"
      /\ res'.id \in DOMAIN tasks
      /\ MarkTaskComplete(res'.id, TRUE)) =>
        /\ res'.err = ErrNil /\ res'.status = StatusOK
        /\ DOMAIN tasks' = DOMAIN tasks
        /\ tasks'[res'.id].isCompleted
        /\ (res.op = "complete" /\ res.id = res'.id /\ res.err = ErrNil) =>
             /\ tasks[res'.id].isCompleted
             /\ tasks'[res'.id].title = tasks[res'.id].title
             /\ tasks'[res'.id].description = tasks[res'.id].description
             /\ tasks'[res'.id].dueDate = tasks[res'.id].dueDate
        /\ \A i \in DOMAIN tasks \ {res'.id} : tasks'[i] = tasks[i]]_vars

\* C11 witness: the second of two successful markComplete calls in a row on
\* one stored task has answered.
C11_Witness ==
  /\ again
  /\ res.op = "complete" /\ res.err = ErrNil
  /\ res.id \in DOMAIN tasks /\ tasks[res.id].isCompleted

\* ------------------------------------------------------- GET /tasks (list)
\* The values of the page and limit query parameters ("" when missing).
QueryValues == {"", "x", "-1", "0", "1", "2", "3"}

\* strconv.Atoi: the number and whether parsing failed.
Atoi(q) ==
  CASE q = "-1" -> [n |-> 0 - 1, err |-> FALSE]
    [] q = "0" -> [n |-> 0, err |-> FALSE]
    [] q = "1" -> [n |-> 1, err |-> FALSE]
    [] q = "2" -> [n |-> 2, err |-> FALSE]
    [] q = "3" -> [n |-> 3, err |-> FALSE]
    [] OTHER -> [n |-> 0, err |-> TRUE]

DefaultPage == 1
DefaultLimit == 10

PageOf(q) == IF Atoi(q).err \/ Atoi(q).n < 1 THEN DefaultPage ELSE Atoi(q).n
LimitOf(q) == IF Atoi(q).err \/ Atoi(q).n < 1 THEN DefaultLimit ELSE Atoi(q).n
OffsetOf(page, limit) == (page - 1) * limit
TotalPages(total, limit) == (total + limit - 1) \div limit

\* ORDER BY created_at DESC: every order of the rows that descends in
\* created_at.
Descending(rows) ==
  {s \in [1..Cardinality(rows) -> rows] :
     /\ \A i, j \in 1..Cardinality(rows) : i # j => s[i] # s[j]
     /\ \A i, j \in 1..Cardinality(rows) : i < j => s[i].createdAt >= s[j].createdAt}

\* SELECT ... FROM tasks ORDER BY created_at DESC: the query has neither
\* LIMIT nor OFFSET and the method takes neither.
RepoGetAll(ts) == Descending({ts[i] : i \in DOMAIN ts})

\* The count handed back next to the page: the number of all stored tasks.
RepoCount(ts) == Cardinality(DOMAIN ts)

\* return s.repo.GetAll(ctx, limit, offset): what the repository hands back.
ServiceGetAllTasks(ts, limit, offset, dbOk) ==
  IF ~dbOk THEN {[tasks |-> <<>>, total |-> 0, err |-> ErrDB]}
  ELSE {[tasks |-> l, total |-> RepoCount(ts), err |-> ErrNil] : l \in RepoGetAll(ts)}

\* GET /tasks?page=pageQ&limit=limitQ
GetAllTasks(pageQ, limitQ, dbOk) ==
  LET page == PageOf(pageQ)
      limit == LimitOf(limitQ)
      offset == OffsetOf(page, limit)
  IN /\ \E out \in ServiceGetAllTasks(tasks, limit, offset, dbOk) :
          res' = [op |-> "list", id |-> 0, req |-> NoReq, from |-> 0, to |-> 0,
                  err |-> out.err,
                  status |-> IF out.err # ErrNil THEN StatusInternalServerError
                             ELSE StatusOK,
                  task |-> NilTask,
                  list |-> out.tasks,
                  calls |-> <<"GetAll">>,
                  pageQ |-> pageQ, limitQ |-> limitQ,
                  limitArg |-> limit, offsetArg |-> offset,
                  page |-> page, limit |-> limit,
                  total |-> out.total,
                  totalPages |-> TotalPages(out.total, limit)]
     /\ again' = FALSE
     /\ UNCHANGED <<storeVars, clock, workerVars, pending>>

ListNext ==
  \/ \E req \in CreateReqs, dbOk \in BOOLEAN : CreateTask(req, dbOk)
  \/ \E id \in ReqIds, dbOk \in BOOLEAN : DeleteTask(id, dbOk)
  \/ \E pageQ \in QueryValues, limitQ \in QueryValues, dbOk \in BOOLEAN :
       GetAllTasks(pageQ, limitQ, dbOk)

ListSpec == Init /\ [][ListNext]_vars

\* The positions offset+1 .. offset+limit of a list, as far as it goes.
PageFrom(l, limit, offset) ==
  IF offset >= Len(l) THEN <<>>
  ELSE SubSeq(l, offset + 1, IF offset + limit < Len(l) THEN offset + limit ELSE Len(l))

\* What the page and limit parameters stand for.
Positive(q, default) ==
  IF q \in {"1", "2", "3"} THEN Atoi(q).n ELSE default

\* C12: GET /tasks replaces a missing, unparsable or non-positive page by 1
\* and limit by 10, calls list(limit, (page-1)*limit) and answers with at
\* most limit tasks, those at positions offset .. offset+limit-1 of all stored
\* tasks newest first, with total = the number of stored tasks and
\* totalPages = ceil(total / limit).
C12_ListReturnsPage ==
  [][(/\ res'.op = "list"
      /\ GetAllTasks(res'.pageQ, res'.limitQ, TRUE)) =>
        LET page == Positive(res'.pageQ, 1)
            limit == Positive(res'.limitQ, 10)
            offset == (page - 1) * limit
            total == Cardinality(DOMAIN tasks)
        IN /\ res'.status = StatusOK
           /\ res'.page = page /\ res'.limit = limit
           /\ res'.limitArg = limit /\ res'.offsetArg = offset
           /\ Len(res'.list) <= limit
           /\ \E all \in Descending({tasks[i] : i \in DOMAIN tasks}) :
                res'.list = PageFrom(all, limit, offset)
           /\ res'.total = total
           /\ total <= res'.totalPages * limit
           /\ total > (res'.totalPages - 1) * limit]_vars

\* ------------------------------------- handlers over a stubbed TaskService
\* The handlers see the service only through the TaskService interface; here
\* the service is a stub that hands back whatever error it is told to, as
\* MockTaskService does in the handler tests.
Endpoints == {"create", "get", "update", "complete", "delete"}

\* mux.Vars(r)["id"]
PathIds == {"1", "2", "abc"}

\* strconv.ParseInt(vars["id"], 10, 64)
ParseInt(p) ==
  CASE p = "1" -> [n |-> 1, err |-> FALSE]
    [] p = "2" -> [n |-> 2, err |-> FALSE]
    [] OTHER -> [n |-> 0, err |-> TRUE]

\* The errors the stub hands back.
StubErrs == {ErrNil, ErrInvalidInput, ErrTaskNotFound, RepoErrTaskNotFound, ErrDB}

\* The status each handler writes for the error its service call returned.
HandlerStatus(op, err) ==
  CASE op = "create" -> CreateTaskStatus(err)
    [] op = "get" -> GetTaskStatus(err)
    [] op = "update" -> UpdateTaskStatus(err)
    [] op = "complete" -> MarkTaskCompleteStatus(err)
    [] op = "delete" -> DeleteTaskStatus(err)

\* The body next to it: http.Error writes err.Error() where the handler
\* recognised the error, the fixed text otherwise; "json" is the encoded
\* result.
HandlerBody(op, err) ==
  IF err = ErrNil THEN "json"
  ELSE IF HandlerStatus(op, err) = StatusInternalServerError
       THEN "Internal server error"
       ELSE err

\* One request to one endpoint: parse the path id, decode the body, call the
\* service, write the response.
Serve(op, pathId, bodyOk, stubErr) ==
  LET idErr == op # "create" /\ ParseInt(pathId).err
      bodyErr == op \in {"create", "update"} /\ ~bodyOk
      called == ~idErr /\ ~bodyErr
  IN /\ res' = [op |-> op,
                id |-> IF op = "create" THEN 0 ELSE ParseInt(pathId).n,
                req |-> NoReq, from |-> 0, to |-> 0,
                err |-> IF called THEN stubErr ELSE ErrNil,
                status |-> IF idErr \/ bodyErr THEN StatusBadRequest
                           ELSE HandlerStatus(op, stubErr),
                task |-> NilTask, list |-> <<>>,
                calls |-> IF called THEN <<op>> ELSE <<>>,
                body |-> IF idErr THEN "Invalid task ID"
                         ELSE IF bodyErr THEN "Invalid request body"
                         ELSE HandlerBody(op, stubErr),
                pathId |-> pathId, bodyOk |-> bodyOk, stubErr |-> stubErr]
     /\ again' = FALSE
     /\ UNCHANGED <<storeVars, clock, workerVars, pending>>

HandlerNext ==
  \E op \in Endpoints, pathId \in PathIds, bodyOk \in BOOLEAN, stubErr \in StubErrs :
    Serve(op, pathId, bodyOk, stubErr)

HandlerSpec == Init /\ [][HandlerNext]_vars

C14_NoEmptyTitleStored ==
  /\ \A i \in DOMAIN tasks : tasks[i].title # ""
  /\ (res.op \in {"create", "update"} /\ res.err = ErrNil) => res.task.title # ""

\* C14 witness: an update whose request carried no title has succeeded on a
\* stored task, and the task still has its title.
C14_Witness ==
  /\ res.op = "update" /\ res.err = ErrNil /\ res.req.title = ""
  /\ res.id \in DOMAIN tasks
  /\ tasks[res.id].title \in CreateTitles \cup UpdateTitles
  /\ tasks[res.id].title # ""

\* C15: a successful create returns a task whose id no task had before, the
\* deleted ones included, that is not completed and whose createdAt equals
\* its updatedAt; every stored task has updatedAt >= createdAt; and no
\* operation changes the id or the createdAt of a task.
C15_IdsAndTimestamps ==
  [][/\ (/\ res'.op = "create" /\ res'.err = ErrNil
         /\ CreateTask(res'.req, TRUE)) =>
           /\ res'.task.id \notin DOMAIN tasks \cup deleted
           /\ res'.task.id \in DOMAIN tasks'
           /\ tasks'[res'.task.id] = res'.task
           /\ res'.task.isCompleted = FALSE
           /\ res'.task.createdAt = res'.task.updatedAt
     /\ \A i \in DOMAIN tasks' :
          /\ tasks'[i].id = i
          /\ tasks'[i].updatedAt >= tasks'[i].createdAt
     /\ \A i \in DOMAIN tasks \cap DOMAIN tasks' :
          tasks'[i].createdAt = tasks[i].createdAt
     /\ DOMAIN tasks' \cap deleted = {}]_vars

\* C15 witness: a create has succeeded after a task was deleted.
C15_Witness ==
  /\ res.op = "create" /\ res.err = ErrNil
  /\ deleted # {}
  /\ res.task.id \in DOMAIN tasks
  /\ res.task.createdAt = res.task.updatedAt

\* ------------------------------------------- UpdateTask, one call at a time
\* taskService.UpdateTask makes two calls to the database, GetByID and
\* Update, in no transaction; other requests run between the two.

\* UpdateTask up to the answer of s.GetTask: an error ends the request, a
\* task found is kept as existingTask.
UpdateRead(id, req) ==
  LET got == ServiceGetTask(tasks, id, TRUE)
  IN /\ pending = NoPending
     /\ IF got.err # ErrNil
        THEN /\ res' = Response("update", id, req,
                                Outcome(got.err, NilTask, tasks, <<"GetByID">>),
                                UpdateTaskStatus(got.err))
             /\ pending' = pending
        ELSE /\ pending' = [id |-> id, req |-> req, existing |-> got.task]
             /\ res' = res
     /\ again' = FALSE
     /\ UNCHANGED <<storeVars, clock, workerVars>>

\* The rest of UpdateTask: merge the request into existingTask, s.repo.Update
\* it, return it.
UpdateWrite ==
  LET merged == Merge(pending.existing, pending.req)
      out == Outcome(ErrNil, [merged EXCEPT !.updatedAt = Now],
                     RepoUpdate(tasks, merged, Now), <<"GetByID", "Update">>)
  IN /\ pending # NoPending
     /\ Now <= MaxTime
     /\ tasks' = out.table
     /\ clock' = Now
     /\ res' = Response("update", pending.id, pending.req, out,
                        UpdateTaskStatus(out.err))
     /\ pending' = NoPending
     /\ again' = FALSE
     /\ UNCHANGED <<nextId, deleted, workerVars>>

ConcNext ==
  \/ \E req \in CreateReqs : CreateTask(req, TRUE)
  \/ \E id \in ReqIds : DeleteTask(id, TRUE)
  \/ \E id \in ReqIds, req \in UpdateReqs : UpdateTask(id, req, "none")
  \/ \E id \in ReqIds, req \in UpdateReqs : UpdateRead(id, req)
  \/ UpdateWrite

ConcSpec == Init /\ [][ConcNext]_vars

\* C16: when UpdateTask returns a task without error, a task with that id is
\* in the store right after its write with the title, description and
\* dueDate returned, and every field the request left empty has the value it
\* had right before the write, also when a delete or another update of the
\* task ran between UpdateTask's read and its write.
C16_UpdateAtomic ==
  [][(pending # NoPending /\ UpdateWrite /\ res'.err = ErrNil) =>
       /\ pending.id \in DOMAIN tasks
       /\ pending.id \in DOMAIN tasks'
       /\ tasks'[pending.id].title = res'.task.title
       /\ tasks'[pending.id].description = res'.task.description
       /\ tasks'[pending.id].dueDate = res'.task.dueDate
       /\ pending.req.title = "" =>
            tasks'[pending.id].title = tasks[pending.id].title
       /\ pending.req.description = "" =>
            tasks'[pending.id].description = tasks[pending.id].description
       /\ pending.req.dueDate = ZeroTime =>
            tasks'[pending.id].dueDate = tasks[pending.id].dueDate]_vars

====
